---- MODULE Spec2Model ----
(***************************************************************************)
(* Lazy-loading file tree controller (FileTree component) and its row      *)
(* renderer's click handling.  One mounted FileTree is modelled: its six   *)
(* useState cells, the loader invocations that are still pending, and the  *)
(* event (render, effect, click, chevron click, fetch settling) that        *)
(* produced the current state.  Every event handler runs to completion on  *)
(* the single event loop, so each handler is one action; the effect of     *)
(* useEffect runs after the commit of its render, as a step of its own.    *)
(***************************************************************************)
EXTENDS Naturals, Sequences, FiniteSets, TLC

VARIABLES
  root,              \* the root prop of the mounted FileTree (an identifier)
  rootsToCome,       \* the root props the parent will render it with later
  mounted,           \* FALSE until the mount effect has run
  effectPending,     \* a render with a new root.id has been committed and
                     \* its useEffect(..., [root.id]) has not run yet
  expanded,          \* ExpandedState: partial map id -> BOOLEAN
  loadedChildren,    \* LoadedChildrenState: partial map id -> Seq(id)
  loading,           \* LoadingState: partial map id -> BOOLEAN
  errors,            \* ErrorState: partial map id -> BOOLEAN
  selectedId,        \* string | null
  isInitialLoading,  \* BOOLEAN
  inflight,          \* id -> number of loader promises not yet settled
  latestPending,     \* id -> the promise of the latest loader call is pending
  closureIsRoot,     \* id -> for each pending promise of id, in call order:
                     \*       node.id === root.id in the closure that called
  ev,                \* the event that produced this state
  svc                \* the call of fetchFakeFiles under way, with its timer

treeVars == <<root, rootsToCome, mounted, effectPending, expanded, loadedChildren, loading, errors,
              selectedId, isInitialLoading, inflight, latestPending,
              closureIsRoot, ev>>

vars == <<root, rootsToCome, mounted, effectPending, expanded, loadedChildren, loading, errors,
          selectedId, isInitialLoading, inflight, latestPending,
          closureIsRoot, ev, svc>>

-----------------------------------------------------------------------------
(* Bounds *)

\* a click starts no fetch when that would make more than MaxInFlight loader
\* promises (of all nodes) pending together
MaxInFlight == 2

\* Math.random() yields one of 0/RandRes, 1/RandRes, ..., (RandRes-1)/RandRes
RandRes == 4

\* the timers advance in steps of TickMs or 2 * TickMs milliseconds, up to
\* MaxClock milliseconds after the call
TickMs == 250

MaxClock == 1500

-----------------------------------------------------------------------------
(* The node universe: FileNode values, named by their id *)

\* possible root props: a folder with a loader, two folders with static
\* children only, a file with a loader and static children, a plain file
Roots == {"R", "S", "T", "g", "F"}

\* the root props the parent renders FileTree with, one after the other;
\* a child of R ("b") is among them, and one root ("b") comes twice
RootSequences ==
  {<<"R", "b">>, <<"R", "S">>, <<"b", "S", "b">>, <<"F", "R">>, <<"F", "g">>,
   <<"T">>, <<"g">>}

Ids == {"R", "S", "T", "g", "F", "a", "b", "c", "d"}

\* null of selectedId
None == "none"

\* FileNode.type
NodeType(n) == IF n \in {"g", "F", "a", "d"} THEN "file" ELSE "folder"

IsFolder(n) == NodeType(n) = "folder"

\* FileNode.loadChildren is present.  The type lets any node carry one,
\* a file ("g") too; the data the program is given has none on a file
HasLoader(n) == n \in {"R", "b", "c", "g"}

\* FileNode.children ?? []
StaticChildren(n) ==
  CASE n = "S" -> <<"a", "b">>
    [] n = "T" -> <<"b", "c", "a">>
    [] n = "g" -> <<"a">>
    [] n = "b" -> <<"d">>
    [] OTHER -> <<>>

\* the sequences a call of FileNode.loadChildren may resolve with
LoaderResults(n) ==
  CASE n = "R" -> {<<>>, <<"b", "a">>}
    [] n = "b" -> {<<>>, <<"d">>}
    [] n = "c" -> {<<>>}
    [] n = "g" -> {<<>>}
    [] OTHER -> {}

-----------------------------------------------------------------------------
(* Object maps *)

EmptyMap == [k \in {} |-> FALSE]

\* { ...prev, [k]: v }
Put(m, k, v) == (k :> v) @@ m

\* m[k] ?? false, and the truthiness of m[k] for a boolean map
Get(m, k) == IF k \in DOMAIN m THEN m[k] ELSE FALSE

\* the controller state as one value
State ==
  [expanded |-> expanded, loadedChildren |-> loadedChildren,
   loading |-> loading, errors |-> errors, selectedId |-> selectedId,
   isInitialLoading |-> isInitialLoading, inflight |-> inflight]

\* the event toggles the expansion of its node
IsToggle(op, n) == op = "chevron" \/ (op = "click" /\ IsFolder(n))

\* n has failed and settled: error shown, expanded, nothing cached
FailedSettled(cs, n) ==
  /\ Get(cs.errors, n)
  /\ Get(cs.expanded, n)
  /\ ~Get(cs.loading, n)
  /\ n \notin DOMAIN cs.loadedChildren

\* the record of an event, taken in the state the event finds:
\*   repeat    the event before it toggled the same node
\*   failed    it toggles a node that has failed and settled
\*   retry     it is the second of two toggles in a row of a node that had
\*             failed and settled
\*   reselect  it selects a node while another one was selected
\*   stale     the promise that settled is not that of the node's latest
\*             loader call
\*   asRoot    the promise that settled belongs to a call made while the
\*             node was the root
Event(op, n, ch) ==
  [op |-> op, node |-> n, children |-> ch,
   repeat |-> IsToggle(op, n) /\ IsToggle(ev.op, ev.node) /\ ev.node = n,
   failed |-> IsToggle(op, n) /\ FailedSettled(State, n),
   retry |-> IsToggle(op, n) /\ ev.node = n /\ ev.failed,
   reselect |-> op = "click" /\ selectedId \notin {None, n},
   stale |-> FALSE, asRoot |-> FALSE]

InitEvent(r) ==
  [op |-> "init", node |-> r, children |-> <<>>, repeat |-> FALSE,
   failed |-> FALSE, retry |-> FALSE, reselect |-> FALSE, stale |-> FALSE,
   asRoot |-> FALSE]

-----------------------------------------------------------------------------
(* FileTree: the handlers, as functions of the controller state *)

\* InitialExpanded with the root never expanded at the start
InitialExpanded_empty(r) == EmptyMap

\* useState initialisers
InitialExpanded(r) == IF HasLoader(r) THEN Put(EmptyMap, r, TRUE) ELSE EmptyMap

InitialIsInitialLoading(r) == HasLoader(r)

\* loadNodeChildren without the setErrors call before the await
loadNodeChildren_keepsError(cs, node) ==
  IF ~HasLoader(node) THEN cs
  ELSE [cs EXCEPT !.loading = Put(@, node, TRUE),
                  !.inflight = [@ EXCEPT ![node] = @ + 1]]

\* loadNodeChildren up to the await: the flags are set and the loader called
loadNodeChildren(cs, node) ==
  IF ~HasLoader(node) THEN cs
  ELSE [cs EXCEPT !.loading = Put(@, node, TRUE),
                  !.errors = Put(@, node, FALSE),
                  !.inflight = [@ EXCEPT ![node] = @ + 1]]

Reverse(s) == [i \in 1..Len(s) |-> s[Len(s) + 1 - i]]

\* fetchResolved storing the children in reverse order
fetchResolved_reversed(cs, node, children, isRoot) ==
  [cs EXCEPT !.loadedChildren = Put(@, node, Reverse(children)),
             !.isInitialLoading = IF isRoot THEN FALSE ELSE @,
             !.loading = Put(@, node, FALSE),
             !.inflight = [@ EXCEPT ![node] = @ - 1]]

\* fetchResolved that goes on to fetch the first child it received
fetchResolved_prefetches(cs, node, children, isRoot) ==
  LET done == [cs EXCEPT !.loadedChildren = Put(@, node, children),
                         !.isInitialLoading = IF isRoot THEN FALSE ELSE @,
                         !.loading = Put(@, node, FALSE),
                         !.inflight = [@ EXCEPT ![node] = @ - 1]]
  IN  IF children = <<>> THEN done ELSE loadNodeChildren(done, children[1])

\* fetchResolved without the finally block
fetchResolved_keepsLoading(cs, node, children, isRoot) ==
  [cs EXCEPT !.loadedChildren = Put(@, node, children),
             !.isInitialLoading = IF isRoot THEN FALSE ELSE @,
             !.inflight = [@ EXCEPT ![node] = @ - 1]]

\* loadNodeChildren after the await resolved with children (try + finally);
\* isRoot is node.id === root.id, with the root of the closure that called
fetchResolved(cs, node, children, isRoot) ==
  [cs EXCEPT !.loadedChildren = Put(@, node, children),
             !.isInitialLoading = IF isRoot THEN FALSE ELSE @,
             !.loading = Put(@, node, FALSE),
             !.inflight = [@ EXCEPT ![node] = @ - 1]]

\* fetchRejected that also caches an empty child list
fetchRejected_writesCache(cs, node) ==
  [cs EXCEPT !.errors = Put(@, node, TRUE),
             !.loadedChildren = Put(@, node, <<>>),
             !.loading = Put(@, node, FALSE),
             !.inflight = [@ EXCEPT ![node] = @ - 1]]

\* fetchRejected without the finally block
fetchRejected_keepsLoading(cs, node) ==
  [cs EXCEPT !.errors = Put(@, node, TRUE),
             !.inflight = [@ EXCEPT ![node] = @ - 1]]

\* fetchRejected that forgets the other nodes' error flags
fetchRejected_dropsErrors(cs, node) ==
  [cs EXCEPT !.errors = Put(EmptyMap, node, TRUE),
             !.loading = Put(@, node, FALSE),
             !.inflight = [@ EXCEPT ![node] = @ - 1]]

\* loadNodeChildren after the await rejected (catch + finally)
fetchRejected(cs, node) ==
  [cs EXCEPT !.errors = Put(@, node, TRUE),
             !.loading = Put(@, node, FALSE),
             !.inflight = [@ EXCEPT ![node] = @ - 1]]

\* the ways a promise of node's loader can settle
Outcomes(node) ==
  {[ok |-> TRUE, children |-> ch] : ch \in LoaderResults(node)}
    \cup {[ok |-> FALSE, children |-> <<>>]}

\* loadNodeChildren after the await settled with outcome o
fetchSettled(cs, node, o, isRoot) ==
  IF o.ok THEN fetchResolved(cs, node, o.children, isRoot)
  ELSE fetchRejected(cs, node)

\* newExpanded that always expands
newExpanded_alwaysTrue(cs, node) == TRUE

\* const newExpanded = !prev[node.id]
newExpanded(cs, node) == ~Get(cs.expanded, node)

\* shouldLoad without the look at the cache
shouldLoad_ignoresCache(cs, node) ==
  /\ ~Get(cs.expanded, node)
  /\ HasLoader(node)

\* shouldLoad on collapsing toggles too
shouldLoad_anyToggle(cs, node) ==
  /\ HasLoader(node)
  /\ node \notin DOMAIN cs.loadedChildren

\* the condition under which handleToggle calls loadNodeChildren
shouldLoad(cs, node) ==
  /\ newExpanded(cs, node)
  /\ HasLoader(node)
  /\ node \notin DOMAIN cs.loadedChildren

\* handleToggle that also selects the node
handleToggle_selects(cs, node) ==
  LET after == IF shouldLoad(cs, node) THEN loadNodeChildren(cs, node) ELSE cs
  IN  [after EXCEPT !.expanded = Put(cs.expanded, node, newExpanded(cs, node)),
                    !.selectedId = node]

handleToggle(cs, node) ==
  LET after == IF shouldLoad(cs, node) THEN loadNodeChildren(cs, node) ELSE cs
  IN  [after EXCEPT !.expanded = Put(cs.expanded, node, newExpanded(cs, node))]

\* handleSelect that keeps an existing selection
handleSelect_keepsFirst(cs, node) ==
  IF cs.selectedId = None THEN [cs EXCEPT !.selectedId = node] ELSE cs

handleSelect(cs, node) == [cs EXCEPT !.selectedId = node]

\* handleClick that calls onToggle for a file too
handleClick_togglesFiles(cs, node) ==
  handleSelect(handleToggle(cs, node), node)

\* handleClick that toggles a folder without selecting it
handleClick_noSelectForFolder(cs, node) ==
  IF IsFolder(node) THEN handleToggle(cs, node) ELSE handleSelect(cs, node)

\* FileRow.handleClick: onToggle for a folder, then onSelect
handleClick(cs, node) ==
  handleSelect(IF IsFolder(node) THEN handleToggle(cs, node) ELSE cs, node)

\* the mount effect
mountEffect(cs, r) == IF HasLoader(r) THEN loadNodeChildren(cs, r) ELSE cs

-----------------------------------------------------------------------------
(* Rendering: which rows are on screen *)

\* loadedChildren[node.id] ?? node.children ?? []
childrenOf(cs, n) ==
  IF n \in DOMAIN cs.loadedChildren THEN cs.loadedChildren[n]
  ELSE StaticChildren(n)

SeqRange(s) == {s[i] : i \in 1..Len(s)}

RECURSIVE renderNode(_, _)
\* the set of nodes whose FileRow renderNode(n) puts on screen
renderNode(cs, n) ==
  {n} \cup
  IF /\ IsFolder(n)
     /\ Get(cs.expanded, n)
     /\ ~Get(cs.loading, n)
     /\ ~Get(cs.errors, n)
  THEN UNION {renderNode(cs, c) : c \in SeqRange(childrenOf(cs, n))}
  ELSE {}

\* the rows of the whole tree: placeholders only while isInitialLoading
renderedRows(cs, r) == IF cs.isInitialLoading THEN {} ELSE renderNode(cs, r)

\* a FileRow of node n, and the idx-th SkeletonRow beneath node n
Row(n, level) == [kind |-> "row", node |-> n, level |-> level, idx |-> 0]

Skeleton(n, level, idx) ==
  [kind |-> "skeleton", node |-> n, level |-> level, idx |-> idx]

\* four placeholder rows at every depth
skeletonCount_four(level) == 4

\* Array.from({ length: level === 0 ? 4 : 2 })
skeletonCount(level) == IF level = 0 THEN 4 ELSE 2

RECURSIVE renderRows(_, _, _), renderChildren(_, _, _), renderEach(_, _, _)
\* renderNode(node, level): the rows it returns, top to bottom
renderRows(cs, n, level) == <<Row(n, level)>> \o renderChildren(cs, n, level)

\* the content of the Collapse beneath the row of n
renderChildren(cs, n, level) ==
  IF ~(IsFolder(n) /\ Get(cs.expanded, n)) THEN <<>>
  ELSE IF Get(cs.loading, n)
       THEN [i \in 1..skeletonCount(level) |-> Skeleton(n, level + 1, i - 1)]
  ELSE IF Get(cs.errors, n) THEN <<>>
  ELSE renderEach(cs, childrenOf(cs, n), level + 1)

\* children.map((child) => renderNode(child, level + 1))
renderEach(cs, children, level) ==
  IF children = <<>> THEN <<>>
  ELSE renderRows(cs, Head(children), level)
         \o renderEach(cs, Tail(children), level)

\* showsChevron without the !hasError conjunct
showsChevron_ignoresError(cs, n) == IsFolder(n) /\ ~Get(cs.loading, n)

\* FileRow shows the chevron IconButton
showsChevron(cs, n) ==
  IsFolder(n) /\ ~Get(cs.loading, n) /\ ~Get(cs.errors, n)

\* FileRow shows the text "Failed to load files": hasError, which renderNode
\* passes as errors[node.id] ?? false
showsError(cs, n) == Get(cs.errors, n)

-----------------------------------------------------------------------------
(* fakeFileService: fetchFakeFiles *)

\* setTimeout(resolve, 1000)
Delay == 1000

\* the parent identifiers fetchFakeFiles is called with
ParentIds == {"root", "root-guilty-egret", "unknown-folder"}

\* the values of Math.random(), as numerators over RandRes
Rand == 0..(RandRes - 1)

\* Math.floor(r * k) for r = u / RandRes
FloorTimes(u, k) == (u * k) \div RandRes

\* r > 0.5 for r = u / RandRes
MoreThanHalf(u) == 2 * u > RandRes

File(id, name, sizeKB) ==
  [id |-> id, name |-> name, type |-> "file", sizeKB |-> sizeKB]

\* a folder whose loadChildren calls fetchFakeFiles(loads)
Folder(id, name, loads) ==
  [id |-> id, name |-> name, type |-> "folder", loadChildren |-> loads]

\* the children pushed for parentId "root"
RootChildren ==
  << File("root-witty-pike", "witty-pike.png", 30),
     File("root-eldest-mink", "eldest-mink.jpg", 26),
     File("root-moaning-tapir", "moaning-tapir.doc", 23),
     File("root-artistic-harrier", "artistic-harrier.jpg", 29),
     File("root-integrated-bass", "integrated-bass.doc", 29),
     File("root-safe-ostrich", "safe-ostrich.png", 7),
     Folder("root-guilty-egret", "guilty-egret", "root-guilty-egret") >>

\* the children pushed for parentId "root-guilty-egret"
GuiltyEgretChildren ==
  << File("guilty-egret-mysterious-goldfish", "mysterious-goldfish.doc", 33),
     Folder("guilty-egret-sick-dragonfly", "sick-dragonfly",
            "guilty-egret-sick-dragonfly"),
     File("guilty-egret-nutritious-marlin", "nutritious-marlin.doc", 30),
     File("guilty-egret-fortunate-felidae", "fortunate-felidae.jpg", 9) >>

\* `${parentId}-${i}`
ChildId(parentId, i) == [parent |-> parentId, index |-> i]

\* numChildren without the + 1
numChildren_noPlusOne(u) == FloorTimes(u, 4)

\* Math.floor(Math.random() * 4) + 1
numChildren(u) == FloorTimes(u, 4) + 1

\* Math.floor(Math.random() * 5000) + 1
randomSizeKB(u) == FloorTimes(u, 5000) + 1

\* the name of a generated child: one of folderNames or fileNames, picked by
\* a draw of its own that no other field depends on; kept as the list it is
\* picked from
randomName(isFolder) == IF isFolder THEN "folderNames" ELSE "fileNames"

\* the child built by iteration i of the loop from its draws: uKind for
\* isFolder, uSize for sizeKB
randomChild(parentId, i, uKind, uSize) ==
  IF MoreThanHalf(uKind)
  THEN Folder(ChildId(parentId, i), randomName(TRUE), ChildId(parentId, i))
  ELSE File(ChildId(parentId, i), randomName(FALSE), randomSizeKB(uSize))

\* the children iteration i may build
ChildChoices(parentId, i) ==
  {randomChild(parentId, i, uKind, uSize) : uKind \in Rand, uSize \in Rand}

RECURSIVE randomChildren(_, _)
\* the lists the loop may build in iterations 0 .. n-1
randomChildren(parentId, n) ==
  IF n = 0 THEN {<<>>}
  ELSE {Append(s, c) : s \in randomChildren(parentId, n - 1),
                       c \in ChildChoices(parentId, n - 1)}

\* the arrays a call fetchFakeFiles(parentId) may resolve with
fetchFakeFilesResults(parentId) ==
  CASE parentId = "root" -> {RootChildren}
    [] parentId = "root-guilty-egret" -> {GuiltyEgretChildren}
    [] OTHER ->
         UNION {randomChildren(parentId, numChildren(u)) : u \in Rand}

\* the timer fires at once
timerDue_atOnce(clock) == TRUE

\* the timer of the call may fire: the delay has elapsed
timerDue(clock) == clock >= Delay

SvcIdle == [promise |-> "none", parentId |-> "root", clock |-> 0,
            children |-> <<>>]

-----------------------------------------------------------------------------
(* The state machine *)

Commit(cs) ==
  /\ expanded' = cs.expanded
  /\ loadedChildren' = cs.loadedChildren
  /\ loading' = cs.loading
  /\ errors' = cs.errors
  /\ selectedId' = cs.selectedId
  /\ isInitialLoading' = cs.isInitialLoading
  /\ inflight' = cs.inflight

\* the promises of the loader calls made by a handler become the latest ones
Issued(cs) == [m \in Ids |-> latestPending[m] \/ cs.inflight[m] > inflight[m]]

\* the closures of the loader calls made by a handler that ran with root r
Captured(cs, r) ==
  [m \in Ids |-> IF cs.inflight[m] > inflight[m]
                 THEN Append(closureIsRoot[m], m = r)
                 ELSE closureIsRoot[m]]

\* the i-th pending promise of n is not that of n's latest loader call
IsStale(n, i) == ~(latestPending[n] /\ i = inflight[n])

Settled(n, i) ==
  IF IsStale(n, i) THEN latestPending ELSE [latestPending EXCEPT ![n] = FALSE]

\* closureIsRoot without the i-th pending promise of n
Dropped(n, i) ==
  [closureIsRoot EXCEPT
     ![n] = [k \in 1..(Len(@) - 1) |-> IF k < i THEN @[k] ELSE @[k + 1]]]

\* the number of loader promises that are pending
RECURSIVE pendingOver(_, _)
pendingOver(f, S) ==
  IF S = {} THEN 0
  ELSE LET n == CHOOSE m \in S : TRUE IN f[n] + pendingOver(f, S \ {n})

pending(cs) == pendingOver(cs.inflight, Ids)

Init ==
  /\ \E roots \in RootSequences :
       /\ root = Head(roots)
       /\ rootsToCome = Tail(roots)
  /\ mounted = FALSE
  /\ effectPending = TRUE
  /\ expanded = InitialExpanded(root)
  /\ loadedChildren = EmptyMap
  /\ loading = EmptyMap
  /\ errors = EmptyMap
  /\ selectedId = None
  /\ isInitialLoading = InitialIsInitialLoading(root)
  /\ inflight = [n \in Ids |-> 0]
  /\ latestPending = [n \in Ids |-> FALSE]
  /\ closureIsRoot = [n \in Ids |-> <<>>]
  /\ ev = InitEvent(root)
  /\ svc = SvcIdle

\* useEffect(..., [root.id]) after the first render.  Until it has run a
\* root that owns a loader shows placeholder rows only (isInitialLoading),
\* and for a root that owns none the effect does nothing, so no click is
\* taken before it
Mount ==
  /\ ~mounted
  /\ effectPending
  /\ mounted' = TRUE
  /\ effectPending' = FALSE
  /\ Commit(mountEffect(State, root))
  /\ latestPending' = Issued(mountEffect(State, root))
  /\ closureIsRoot' = Captured(mountEffect(State, root), root)
  /\ ev' = Event("mount", root, <<>>)
  /\ UNCHANGED <<root, rootsToCome, svc>>

\* the parent renders FileTree with another root prop and the render is
\* committed: the state cells stay as they are, the tree is drawn from the
\* new root, and the effect of useEffect(..., [root.id]) is still to run.
\* The effects of a commit run before the next render starts
SetRoot(r) ==
  /\ mounted
  /\ ~effectPending
  /\ rootsToCome # <<>>
  /\ r = Head(rootsToCome)
  /\ rootsToCome' = Tail(rootsToCome)
  /\ root' = r
  /\ effectPending' = TRUE
  /\ ev' = Event("render", r, <<>>)
  /\ UNCHANGED <<mounted, expanded, loadedChildren, loading, errors,
                 selectedId, isInitialLoading, inflight, latestPending,
                 closureIsRoot, svc>>

\* the effect of useEffect(..., [root.id]) runs after the commit of a render
\* with another root, on the state as it is by then
RootEffect ==
  /\ mounted
  /\ effectPending
  /\ effectPending' = FALSE
  /\ Commit(mountEffect(State, root))
  /\ latestPending' = Issued(mountEffect(State, root))
  /\ closureIsRoot' = Captured(mountEffect(State, root), root)
  /\ ev' = Event("root", root, <<>>)
  /\ UNCHANGED <<root, rootsToCome, mounted, svc>>

\* a click on the row (ListItemButton) of a rendered node
Click(n) ==
  /\ mounted
  /\ n \in renderedRows(State, root)
  /\ pending(handleClick(State, n)) <= MaxInFlight
  /\ Commit(handleClick(State, n))
  /\ latestPending' = Issued(handleClick(State, n))
  /\ closureIsRoot' = Captured(handleClick(State, n), root)
  /\ ev' = Event("click", n, <<>>)
  /\ UNCHANGED <<root, rootsToCome, mounted, effectPending, svc>>

\* a click on the chevron IconButton of a rendered folder
Chevron(n) ==
  /\ mounted
  /\ n \in renderedRows(State, root)
  /\ showsChevron(State, n)
  /\ pending(handleToggle(State, n)) <= MaxInFlight
  /\ Commit(handleToggle(State, n))
  /\ latestPending' = Issued(handleToggle(State, n))
  /\ closureIsRoot' = Captured(handleToggle(State, n), root)
  /\ ev' = Event("chevron", n, <<>>)
  /\ UNCHANGED <<root, rootsToCome, mounted, effectPending, svc>>

\* the i-th pending loader promise of n resolves
FetchResolve(n, children, i) ==
  /\ i \in 1..inflight[n]
  /\ children \in LoaderResults(n)
  /\ ev' = [Event("resolve", n, children) EXCEPT
              !.stale = IsStale(n, i), !.asRoot = closureIsRoot[n][i]]
  /\ Commit(fetchResolved(State, n, children, closureIsRoot[n][i]))
  /\ latestPending' = Settled(n, i)
  /\ closureIsRoot' = Dropped(n, i)
  /\ UNCHANGED <<root, rootsToCome, mounted, effectPending, svc>>

\* the i-th pending loader promise of n rejects
FetchReject(n, i) ==
  /\ i \in 1..inflight[n]
  /\ ev' = [Event("reject", n, <<>>) EXCEPT
              !.stale = IsStale(n, i), !.asRoot = closureIsRoot[n][i]]
  /\ Commit(fetchRejected(State, n))
  /\ latestPending' = Settled(n, i)
  /\ closureIsRoot' = Dropped(n, i)
  /\ UNCHANGED <<root, rootsToCome, mounted, effectPending, svc>>

\* the parent renders FileTree again with the same root prop
Rerender ==
  /\ mounted
  /\ ~effectPending
  /\ ev' = Event("rerender", root, <<>>)
  /\ UNCHANGED <<root, rootsToCome, mounted, effectPending, expanded, loadedChildren, loading, errors,
                 selectedId, isInitialLoading, inflight, latestPending,
                 closureIsRoot, svc>>

Next ==
  \/ Mount
  \/ \E n \in Ids : Click(n)
  \/ \E n \in Ids : Chevron(n)
  \/ \E r \in Roots \cup {"b"} : SetRoot(r)
  \/ RootEffect
  \/ \E n \in Ids : \E children \in LoaderResults(n) :
       \E i \in 1..inflight[n] : FetchResolve(n, children, i)
  \/ \E n \in Ids : \E i \in 1..inflight[n] : FetchReject(n, i)
  \/ Rerender

Spec == Init /\ [][Next]_vars

\* a pending loader promise of n settles, one way or the other
Settle(n) ==
  \E i \in 1..inflight[n] :
    \/ \E children \in LoaderResults(n) : FetchResolve(n, children, i)
    \/ FetchReject(n, i)

\* the loader's contract: every promise it returns eventually settles
SpecSettling == Spec /\ \A n \in {m \in Ids : HasLoader(m)} : WF_vars(Settle(n))

\* fetchFakeFiles(parentId) is called: the timer is set, the promise pending
Call(parentId) ==
  /\ svc.promise # "pending"
  /\ svc' = [promise |-> "pending", parentId |-> parentId, clock |-> 0,
             children |-> <<>>]
  /\ UNCHANGED treeVars

\* dt milliseconds of timer time pass
AdvanceTimers(dt) ==
  /\ svc.promise = "pending"
  /\ svc.clock + dt <= MaxClock
  /\ svc' = [svc EXCEPT !.clock = @ + dt]
  /\ UNCHANGED treeVars

\* the timer fires; the rest of fetchFakeFiles runs and the promise resolves
TimerFire ==
  /\ svc.promise = "pending"
  /\ timerDue(svc.clock)
  /\ \E children \in fetchFakeFilesResults(svc.parentId) :
       svc' = [svc EXCEPT !.promise = "resolved", !.children = children]
  /\ UNCHANGED treeVars

NextService ==
  \/ \E parentId \in ParentIds : Call(parentId)
  \/ \E dt \in {TickMs, 2 * TickMs} : AdvanceTimers(dt)
  \/ TimerFire

SpecService == Init /\ [][NextService]_vars

TypeOK ==
  /\ root \in Roots \cup {"b"}
  /\ mounted \in BOOLEAN
  /\ effectPending \in BOOLEAN
  /\ ~mounted => effectPending
  /\ DOMAIN expanded \subseteq Ids
  /\ DOMAIN loadedChildren \subseteq Ids
  /\ DOMAIN loading \subseteq Ids
  /\ DOMAIN errors \subseteq Ids
  /\ selectedId \in Ids \cup {None}
  /\ isInitialLoading \in BOOLEAN
  /\ \A n \in Ids : inflight[n] \in 0..(MaxInFlight + 1)
  /\ \A n \in Ids : latestPending[n] => inflight[n] > 0
  /\ \A n \in Ids : Len(closureIsRoot[n]) = inflight[n]

-----------------------------------------------------------------------------
(* Properties *)

OtherInflightSame(f, g, n) == \A m \in Ids \ {n} : g[m] = f[m]

\* C1: for every node identifier at most one fetch is in flight at any
\* time, also after expand, collapse, expand on an unloaded folder whose
\* first fetch is still pending.
C1_AtMostOneFetchInFlight == \A n \in Ids : inflight[n] <= 1

\* C2: cache permanence: once a node has a cache entry (an empty child list
\* included) it keeps one, and no later toggle, selection, re-render with
\* the same root or fetch settling starts a fetch for it (every step but
\* the render with another root and the effect that follows that render).
C2_CachePermanence ==
  [][\A n \in Ids :
       n \in DOMAIN loadedChildren =>
         /\ n \in DOMAIN loadedChildren'
         /\ ev'.op \notin {"render", "root"} =>
              inflight'[n] <= inflight[n]]_vars

\* a folder with an empty cached child list has just been expanded again and
\* nothing is being fetched for it
C2_Witness ==
  /\ IsToggle(ev.op, ev.node)
  /\ ev.node \in DOMAIN loadedChildren
  /\ loadedChildren[ev.node] = <<>>
  /\ Get(expanded, ev.node)
  /\ inflight[ev.node] = 0

\* C3: a toggle that expands a folder owning a loader and having no cache
\* entry starts exactly one fetch for that folder; a toggle that expands a
\* folder with a cache entry or without a loader, and any toggle that
\* collapses, starts no fetch.  No toggle starts a fetch for another node.
C3_ToggleStartsFetch ==
  [][IsToggle(ev'.op, ev'.node) =>
       LET n == ev'.node
           expands == ~Get(expanded, n)
           one == expands /\ HasLoader(n) /\ n \notin DOMAIN loadedChildren
       IN  /\ inflight'[n] = inflight[n] + (IF one THEN 1 ELSE 0)
           /\ OtherInflightSame(inflight, inflight', n)]_vars

\* a click has expanded an uncached folder that owns a loader, and its one
\* fetch is pending
C3_Witness ==
  /\ ev.op = "click"
  /\ HasLoader(ev.node)
  /\ Get(expanded, ev.node)
  /\ ev.node \notin DOMAIN loadedChildren
  /\ inflight[ev.node] = 1

\* C4: in every reachable state and for every node, two toggles in a row
\* leave the node's expansion flag as it was and start at most one fetch.
C4_DoubleToggle ==
  \A n \in Ids :
    LET s2 == handleToggle(handleToggle(State, n), n)
    IN  /\ Get(s2.expanded, n) = Get(expanded, n)
        /\ s2.inflight[n] <= inflight[n] + 1
        /\ OtherInflightSame(inflight, s2.inflight, n)

\* a loader-owning folder has been toggled twice in a row, is collapsed
\* again, and the one fetch of the pair is pending
C4_Witness ==
  /\ ev.repeat
  /\ HasLoader(ev.node)
  /\ ~Get(expanded, ev.node)
  /\ inflight[ev.node] = 1

\* C5: when a fetch for N fails, N's error flag becomes true, N's loading
\* flag becomes false and no cache entry is written.
C5_FailureBecomesState ==
  [][ev'.op = "reject" =>
       LET n == ev'.node
       IN  /\ n \in DOMAIN errors' /\ errors'[n] = TRUE
           /\ n \in DOMAIN loading' /\ loading'[n] = FALSE
           /\ loadedChildren' = loadedChildren]_vars

\* a fetch has just failed for a node that has no cache entry
C5_Witness ==
  /\ ev.op = "reject"
  /\ Get(errors, ev.node)
  /\ ev.node \notin DOMAIN loadedChildren

\* C6: a step that starts a fetch for N sets N's loading flag to true and
\* N's error flag to false; a step in which a fetch of N succeeds leaves N's
\* cache entry equal to the sequence the loader returned and N's loading flag
\* false.
C6_StartAndSuccess ==
  [][/\ \A n \in Ids :
          inflight'[n] > inflight[n] =>
            /\ n \in DOMAIN loading' /\ loading'[n] = TRUE
            /\ n \in DOMAIN errors' /\ errors'[n] = FALSE
     /\ ev'.op = "resolve" =>
          /\ ev'.node \in DOMAIN loadedChildren'
          /\ loadedChildren'[ev'.node] = ev'.children
          /\ ev'.node \in DOMAIN loading' /\ loading'[ev'.node] = FALSE]_vars

\* a fetch has just succeeded with a list of at least two children
C6_Witness ==
  /\ ev.op = "resolve"
  /\ Len(ev.children) >= 2
  /\ loadedChildren[ev.node] = ev.children
  /\ ~Get(loading, ev.node)

\* C7: retry via recollapse: for a folder that is expanded, in error and
\* uncached, the collapsing toggle starts no fetch and the expanding toggle
\* after it starts exactly one, leaving the error flag false.
C7_RetryViaRecollapse ==
  \A n \in Ids :
    (HasLoader(n) /\ Get(errors, n) /\ Get(expanded, n)
       /\ n \notin DOMAIN loadedChildren) =>
      LET s1 == handleToggle(State, n)
          s2 == handleToggle(s1, n)
      IN  /\ s1.inflight = inflight
          /\ ~Get(s1.expanded, n)
          /\ s2.inflight[n] = inflight[n] + 1
          /\ OtherInflightSame(inflight, s2.inflight, n)
          /\ Get(s2.expanded, n)
          /\ n \in DOMAIN s2.errors /\ s2.errors[n] = FALSE

\* a folder that had failed and settled has been collapsed and expanded
\* again, and its new fetch is pending with the error flag cleared
C7_Witness ==
  /\ ev.retry
  /\ Get(expanded, ev.node)
  /\ ~Get(errors, ev.node)
  /\ inflight[ev.node] = 1

\* C8: before the mount effect the root is expanded exactly if it owns a
\* loader and nothing is being fetched; the mount effect starts exactly one
\* fetch, for the root, if the root owns a loader and none otherwise.
C8_RootOnMount ==
  /\ ev.op \in {"init", "mount"} => Get(expanded, root) = HasLoader(root)
  /\ ev.op = "init" => \A n \in Ids : inflight[n] = 0
  /\ ev.op = "mount" =>
       /\ inflight[root] = (IF HasLoader(root) THEN 1 ELSE 0)
       /\ OtherInflightSame([n \in Ids |-> 0], inflight, root)

\* the mount effect has just run for a root that owns a loader
C8_Witness ==
  /\ ev.op = "mount"
  /\ HasLoader(root)
  /\ Get(expanded, root)
  /\ inflight[root] = 1

\* C9: no fetch failure is fatal to the tree: once the root's fetch has
\* settled the tree shows the root's row and not only placeholder rows, and
\* a node whose fetch has just failed while its row was on screen keeps its
\* row.
C9_FailureNotFatal ==
  /\ (mounted /\ inflight[root] = 0) => root \in renderedRows(State, root)
  /\ (ev.op = "reject" /\ ev.node = root) => ev.node \in renderedRows(State, root)

\* C10: the selected identifier is the node of the latest click and no other
\* event changes it; at most one node is marked selected.
C10_SingleSelection ==
  [][/\ ev'.op = "click" => selectedId' = ev'.node
     /\ ev'.op # "click" => selectedId' = selectedId
     /\ Cardinality({n \in Ids : selectedId' = n}) <= 1]_vars

\* a node has just been selected while another node was selected
C10_Witness ==
  /\ ev.op = "click"
  /\ ev.reselect
  /\ selectedId = ev.node

\* a file as the program's data has them: it exposes no loader
PlainFile(n) == ~IsFolder(n) /\ ~HasLoader(n)

\* C11: a node of kind file (which exposes no loader) never causes a fetch:
\* no fetch of such a file is ever pending, the mount of such a file as root
\* (and the effect after a render with it as root) starts no fetch, and a
\* click on the row of a file, whatever fields the file carries, starts no
\* fetch.
C11_FileNeverFetches ==
  [][/\ \A n \in Ids : PlainFile(n) => inflight'[n] = 0
     /\ (ev'.op \in {"mount", "root"} /\ PlainFile(root')) =>
          inflight' = inflight
     /\ (ev'.op = "click" /\ ~IsFolder(ev'.node)) => inflight' = inflight]_vars

\* a file without a loader is the root, the mount effect has run, the
\* file's row has just been clicked, and no fetch is pending
C11_Witness ==
  /\ mounted
  /\ PlainFile(root)
  /\ ev.op = "click"
  /\ ev.node = root
  /\ selectedId = root
  /\ \A n \in Ids : inflight[n] = 0

\* C12: a click on a row selects its node; it flips the node's expansion
\* flag, once, exactly if the node is a folder; a click on a file row leaves
\* every expansion flag (and every fetch) as it was.
C12_ClickIntents ==
  [][ev'.op = "click" =>
       LET n == ev'.node
       IN  /\ selectedId' = n
           /\ IsFolder(n) => expanded' = Put(expanded, n, ~Get(expanded, n))
           /\ ~IsFolder(n) => expanded' = expanded /\ inflight' = inflight]_vars

\* a file row has just been clicked while some folder is expanded
C12_Witness ==
  /\ ev.op = "click"
  /\ ~IsFolder(ev.node)
  /\ selectedId = ev.node
  /\ \E m \in Ids : IsFolder(m) /\ Get(expanded, m)

\* C13: stale-response guard: the settling of a promise that is not the one
\* of the node's latest loader call changes no cache entry, loading flag,
\* error flag or initial-loading indicator.
C13_StaleResponseGuard ==
  [][(ev'.op \in {"resolve", "reject"} /\ ev'.stale) =>
       /\ loadedChildren' = loadedChildren
       /\ loading' = loading
       /\ errors' = errors
       /\ isInitialLoading' = isInitialLoading]_vars

\* C14: a node's loading flag is true only if at least one fetch of that
\* node is in flight.
C14_LoadingOnlyInFlight ==
  \A n \in Ids : Get(loading, n) => inflight[n] > 0

\* a node is loading with two of its fetches in flight
C14_Witness ==
  \E n \in Ids : Get(loading, n) /\ inflight[n] = 2

\* the nesting depths renderNode is called with
Levels == 0..2

\* the rows of a list that sit at the given depth
RowsAt(rows, level) ==
  LET AtLevel(r) == r.level = level IN SelectSeq(rows, AtLevel)

\* C15: the rows beneath a folder are a function of its state: none when
\* collapsed; 4 (depth 0) or 2 (deeper) placeholder rows when expanded and
\* loading; none when expanded, not loading and in error; otherwise one row
\* per child, the cached children if there is a cache entry and the static
\* ones if not, in the order of the source, each followed by its own
\* rendering.  A file renders no child rows, whatever its flags.
C15_RowsBeneath ==
  \A n \in Ids : \A level \in Levels :
    LET below == renderChildren(State, n, level)
        direct == RowsAt(below, level + 1)
        source == IF n \in DOMAIN loadedChildren THEN loadedChildren[n]
                  ELSE StaticChildren(n)
        forced == [State EXCEPT !.expanded = Put(@, n, TRUE)]
    IN  /\ ~IsFolder(n) =>
             below = <<>> /\ renderChildren(forced, n, level) = <<>>
        /\ (IsFolder(n) /\ ~Get(expanded, n)) => below = <<>>
        /\ (IsFolder(n) /\ Get(expanded, n) /\ Get(loading, n)) =>
             /\ Len(below) = (IF level = 0 THEN 4 ELSE 2)
             /\ \A i \in 1..Len(below) :
                  below[i].kind = "skeleton" /\ below[i].level = level + 1
        /\ (IsFolder(n) /\ Get(expanded, n) /\ ~Get(loading, n)
              /\ Get(errors, n)) => below = <<>>
        /\ (IsFolder(n) /\ Get(expanded, n) /\ ~Get(loading, n)
              /\ ~Get(errors, n)) =>
             /\ [i \in 1..Len(direct) |-> direct[i].node] = source
             /\ \A i \in 1..Len(direct) : direct[i].kind = "row"
             /\ below = renderEach(State, source, level + 1)

\* the root shows its three children in the order of the source and one of
\* them, expanded, shows its placeholder rows
C15_Witness ==
  /\ Len(childrenOf(State, root)) = 3
  /\ Get(expanded, root)
  /\ root \in renderedRows(State, root)
  /\ \E m \in SeqRange(childrenOf(State, root)) :
       Get(expanded, m) /\ Get(loading, m)
  /\ Len(renderRows(State, root, 0)) = 6

\* C16: the initial-loading indicator is true in the initial state exactly
\* if the root owns a loader; only a step that settles a fetch of the root
\* changes it (so no start or completion of a non-root fetch does); once
\* false it stays false.
C16_InitialLoadingIndicator ==
  [][/\ ev.op = "init" => isInitialLoading = HasLoader(root)
     /\ isInitialLoading' # isInitialLoading =>
          ev'.op \in {"resolve", "reject"} /\ ev'.node = root
     /\ ~isInitialLoading => ~isInitialLoading']_vars

\* the maps f and g agree on every key but n
SameExcept(f, g, n) ==
  \A m \in Ids \ {n} :
    /\ m \in DOMAIN f <=> m \in DOMAIN g
    /\ m \in DOMAIN f => f[m] = g[m]

\* the controller states s and t differ at most in n's loading flag, error
\* flag and cache entry, in the indicator if n is the root r, and in the
\* number of n's pending promises
LocalTo(s, t, n, r) ==
  /\ t.expanded = s.expanded
  /\ t.selectedId = s.selectedId
  /\ SameExcept(s.loadedChildren, t.loadedChildren, n)
  /\ SameExcept(s.loading, t.loading, n)
  /\ SameExcept(s.errors, t.errors, n)
  /\ n # r => t.isInitialLoading = s.isInitialLoading
  /\ OtherInflightSame(s.inflight, t.inflight, n)

\* C17: fetch events are local to their node: the start of a fetch of N (in
\* any reachable state, and in the effect that runs on mount and after a
\* change of root), its success and its failure change only N's loading
\* flag, error flag and cache entry, and the indicator when N is the root;
\* every expansion flag, the selected identifier and every other node's
\* entries stay as they are.
C17_FetchEventsLocal ==
  [][/\ \A n \in Ids : LocalTo(State, loadNodeChildren(State, n), n, root)
     /\ ev'.op \in {"mount", "root", "resolve", "reject"} =>
          LocalTo(State, State', ev'.node, root')]_vars

\* C18: lazy load: a step that starts a fetch for a node that is not the
\* root is a toggle that expands that node; a node other than the root that
\* has never been toggled or been the root (its expansion flag does not
\* exist, so it shows collapsed) has no fetch in flight and no loading
\* flag, error flag or cache entry; the arrival of a node's children starts
\* no fetch and changes no expansion flag.
C18_LazyLoad ==
  [][/\ \A n \in Ids \ {root'} :
          inflight'[n] > inflight[n] =>
            /\ IsToggle(ev'.op, ev'.node) /\ ev'.node = n
            /\ ~Get(expanded, n) /\ Get(expanded', n)
     /\ \A n \in Ids \ {root} :
          (n \notin DOMAIN expanded /\ n \notin DOMAIN loading) =>
            /\ inflight[n] = 0
            /\ n \notin DOMAIN errors
            /\ n \notin DOMAIN loadedChildren
     /\ ev'.op = "resolve" =>
          /\ \A m \in Ids : inflight'[m] <= inflight[m]
          /\ expanded' = expanded]_vars

\* the children that have just arrived list a folder with a loader; its
\* row is on screen, collapsed, and nothing is fetched for it
C18_Witness ==
  /\ ev.op = "resolve"
  /\ \E m \in SeqRange(ev.children) :
       /\ IsFolder(m) /\ HasLoader(m)
       /\ m \in renderedRows(State, root)
       /\ m \notin DOMAIN expanded
       /\ inflight[m] = 0

\* C19: fetchFakeFiles does not resolve before its 1000 ms timer has fired:
\* while less than 1000 ms of timer time have passed since the call the
\* promise is pending; the promise leaves the pending state only in a step
\* taken at 1000 ms or later, and then it is resolved; it is never rejected.
C19_TimerDelay ==
  [][/\ (svc.promise # "none" /\ svc.clock < 1000) => svc.promise = "pending"
     /\ (svc.promise = "pending" /\ svc'.promise # "pending") =>
          svc.clock >= 1000 /\ svc'.promise = "resolved"
     /\ svc'.promise # "rejected"]_vars

\* a call has resolved on the first timer step that reached 1000 ms
C19_Witness ==
  /\ svc.promise = "resolved"
  /\ svc.clock >= 1000
  /\ svc.clock < 1000 + TickMs
  /\ svc.children # <<>>

\* C20: for a parent identifier other than "root" and "root-guilty-egret"
\* fetchFakeFiles returns 1 to 4 children; each is a file with sizeKB > 0 and
\* no loader or a folder with a loader and no sizeKB; the i-th child's id is
\* the parent identifier followed by i, so the ids are pairwise distinct.
C20_GeneratedChildren ==
  (svc.promise = "resolved"
     /\ svc.parentId \notin {"root", "root-guilty-egret"}) =>
    LET ch == svc.children
    IN  /\ Len(ch) >= 1 /\ Len(ch) <= 4
        /\ \A i \in 1..Len(ch) :
             /\ \/ /\ ch[i].type = "file"
                   /\ "sizeKB" \in DOMAIN ch[i] /\ ch[i].sizeKB > 0
                   /\ "loadChildren" \notin DOMAIN ch[i]
                \/ /\ ch[i].type = "folder"
                   /\ "loadChildren" \in DOMAIN ch[i]
                   /\ "sizeKB" \notin DOMAIN ch[i]
             /\ ch[i].id = [parent |-> svc.parentId, index |-> i - 1]
        /\ \A i, j \in 1..Len(ch) : i # j => ch[i].id # ch[j].id

\* a call for an unknown folder has resolved with four children, a folder
\* and a file among them
C20_Witness ==
  /\ svc.promise = "resolved"
  /\ svc.parentId = "unknown-folder"
  /\ Len(svc.children) = 4
  /\ \E i, j \in 1..4 :
       svc.children[i].type = "folder" /\ svc.children[j].type = "file"

\* C21: in every reachable state a node whose error flag is true has no
\* cache entry: error and loaded are mutually exclusive under every
\* interleaving of toggles and fetch completions.
C21_ErrorExcludesCache ==
  \A n \in Ids : Get(errors, n) => n \notin DOMAIN loadedChildren

\* C22: a cache entry, once populated, is never removed and never replaced
\* by a different child sequence, under every interleaving of toggles and
\* fetch completions.
C22_CacheNeverReplaced ==
  [][\A n \in Ids :
       n \in DOMAIN loadedChildren =>
         /\ n \in DOMAIN loadedChildren'
         /\ loadedChildren'[n] = loadedChildren[n]]_vars

\* C23: a row on screen shows "Failed to load files" if and only if its
\* node's error flag is true, and shows the chevron if and only if the node
\* is a folder whose loading and error flags are both false; a step that
\* flips the expansion of a folder in error is a click on its row.
C23_ErrorRow ==
  [][/\ \A n \in renderedRows(State, root) :
          /\ showsError(State, n) <=> (n \in DOMAIN errors /\ errors[n])
          /\ showsChevron(State, n) <=>
                /\ NodeType(n) = "folder"
                /\ ~(n \in DOMAIN loading /\ loading[n])
                /\ ~(n \in DOMAIN errors /\ errors[n])
     /\ \A n \in Ids :
          (/\ IsFolder(n)
           /\ Get(errors, n)
           /\ Get(expanded', n) # Get(expanded, n))
            => ev'.op = "click" /\ ev'.node = n]_vars

\* a folder in error, whose row shows the error text and no chevron, has
\* just been collapsed by a click on its row
C23_Witness ==
  /\ ev.op = "click"
  /\ ev.failed
  /\ IsFolder(ev.node)
  /\ ev.node \in renderedRows(State, root)
  /\ ~Get(expanded, ev.node)
  /\ showsError(State, ev.node)
  /\ ~showsChevron(State, ev.node)

\* C24: if every started fetch eventually settles, a node whose loading
\* flag is true eventually has it false again, whatever toggles are
\* interleaved: no node stays in the loading state for ever.  Only a node
\* with a loader ever has a true loading flag, and for such a node the flag
\* is false again and again (which is the same as: true leads to false).
C24_LoadingEnds ==
  /\ [](\A n \in Ids : Get(loading, n) => HasLoader(n))
  /\ \A n \in {m \in Ids : HasLoader(m)} : []<>~Get(loading, n)

\* a fetch of a folder that was collapsed while loading has failed, and the
\* folder's loading flag is false again
C24_Witness ==
  /\ ev.op = "reject"
  /\ ~Get(expanded, ev.node)
  /\ ev.node \in DOMAIN loading
  /\ ~loading[ev.node]
  /\ inflight[ev.node] = 0

\* C25: in every reachable state, a node with a fetch in flight has a true
\* loading flag, so that an expanded folder with a pending fetch shows
\* placeholder rows.
C25_InFlightShowsLoading ==
  \A n \in Ids : inflight[n] > 0 => Get(loading, n)

\* C26: fetches of distinct nodes are independent: when fetches of two
\* different nodes are in flight, the controller state after both have
\* settled is the same whichever of the two settles first.
C26_IndependentFetches ==
  \A n, m \in Ids :
    (n # m /\ inflight[n] > 0 /\ inflight[m] > 0) =>
      \A o1 \in Outcomes(n), o2 \in Outcomes(m) :
        \A i \in 1..inflight[n], j \in 1..inflight[m] :
          LET rn == closureIsRoot[n][i]
              rm == closureIsRoot[m][j]
          IN  fetchSettled(fetchSettled(State, n, o1, rn), m, o2, rm)
                = fetchSettled(fetchSettled(State, m, o2, rm), n, o1, rn)

\* of two folders that were loading together one has just failed; when
\* the other one's fetch succeeds no fetch is left, the first is in error
\* and the second is cached
C26_Witness ==
  /\ ev.op = "reject"
  /\ ~ev.stale
  /\ inflight[ev.node] = 0
  /\ \E m \in Ids \ {ev.node} :
       /\ inflight[m] = 1
       /\ Get(loading, m)
       /\ \E o \in Outcomes(m) :
            /\ o.ok
            /\ LET t == fetchSettled(State, m, o, closureIsRoot[m][1])
               IN  /\ m \in DOMAIN t.loadedChildren
                   /\ Get(t.errors, ev.node)
                   /\ ~Get(t.loading, m)
                   /\ \A k \in Ids : t.inflight[k] = 0

\* C27: a fetch result is committed whatever the folder's expansion: when
\* the fetch of a folder that was collapsed meanwhile succeeds, the cache
\* entry is populated while the folder stays collapsed, and the next
\* expansion starts no fetch and shows the cached children beneath the row.
C27_CommitWhileCollapsed ==
  [][(ev'.op = "resolve" /\ ~ev'.stale /\ ~Get(expanded, ev'.node)) =>
       LET n == ev'.node
           t == handleToggle(State', n)
       IN  /\ n \in DOMAIN loadedChildren'
           /\ loadedChildren'[n] = ev'.children
           /\ ~Get(expanded', n)
           /\ Get(t.expanded, n)
           /\ t.inflight = inflight'
           /\ \A level \in Levels :
                renderChildren(t, n, level)
                  = renderEach(t, ev'.children, level + 1)]_vars

\* C28: a click on a folder's chevron flips that folder's expansion, leaves
\* every other expansion flag alone and emits no select intent: the
\* selected identifier is unchanged; and no step returns the selected
\* identifier to null once a node has been selected.
C28_ChevronKeepsSelection ==
  [][/\ ev'.op = "chevron" =>
          /\ selectedId' = selectedId
          /\ Get(expanded', ev'.node) = ~Get(expanded, ev'.node)
          /\ \A m \in Ids \ {ev'.node} :
               Get(expanded', m) = Get(expanded, m)
     /\ selectedId # None => selectedId' # None]_vars

\* a folder has just been expanded through its chevron while another node
\* is selected
C28_Witness ==
  /\ ev.op = "chevron"
  /\ IsFolder(ev.node)
  /\ Get(expanded, ev.node)
  /\ selectedId \notin {None, ev.node}
====
